---- MODULE Spec2Model ----
(***************************************************************************)
(* VoidSettingsService (src/vs/platform/void/common/voidConfigService.ts,  *)
(* lines 143-410): the settings store of the editor.  The service keeps    *)
(* one in-memory document `state`, replaces it once by the document read   *)
(* from encrypted storage, and every mutation updates `state`              *)
(* synchronously, then persists the whole document asynchronously and      *)
(* fires a tagged change event.                                            *)
(*                                                                         *)
(* JavaScript runs every handler to its first await without interleaving,  *)
(* so each action below is one such run: a public method up to its         *)
(* `await this._storeState()`, the continuation of the initial read, or    *)
(* the continuation of one pending persist.                                *)
(***************************************************************************)
EXTENDS Integers, Sequences, FiniteSets, TLC

VARIABLES
    state,      \* this.state : VoidSettingsState
    storage,    \* the value kept under STORAGE_KEY by the storage service
    storedBy,   \* the call whose persist wrote `storage` (0: no persist has)
    initRead,   \* what storage.get returned inside the constructor
    phase,      \* "ReadingStorage" | "Ready" | "Failed" : the initial read
    inflight,   \* pending _storeState calls, in issue order
    fired,      \* number of onDidChangeState events fired, per tag
    resolved,   \* number of times waitForInitState was resolved
    unhandled,  \* number of promises rejected with nobody handling them
    calls,      \* number of public method calls made so far
    issued,     \* number of persists issued, per awaiting method
    failed,     \* number of persists that failed, per awaiting method
    flagSet,    \* per flag: <<v>> when setFeatureFlag(flag, v) was the last write
    last,       \* the last method call (or the completion of the initial read)
    prev,       \* this.state and `issued` as they were before `last`
    post        \* this.state as `last` left it

vars == <<state, storage, storedBy, initRead, phase, inflight, fired, resolved,
          unhandled, calls, issued, failed, flagSet, last, prev, post>>

(***************************************************************************)
(* Bounds of the model.                                                    *)
(***************************************************************************)
MaxCalls == 2

(***************************************************************************)
(* Names.  voidSettingsTypes.ts is not part of the sources at hand; the    *)
(* feature names are the keys of defaultState (line 224).                  *)
(***************************************************************************)
providerNames == <<"anthropic", "openai">>

featureNames == <<"Ctrl+L", "Ctrl+K", "Autocomplete">>

featureFlagNames == <<"autoRefreshModels">>

Range(s) == {s[i] : i \in 1..Len(s)}

\* the inputs the actions draw from
ModelNameInputs == {"gpt-4o"}

ApiKeyInputs == {"sk-1"}

\* null, as held by modelSelectionOfFeature
Null == [isNull |-> TRUE]

\* { ...obj, [key]: val } : a copy of obj with key set, added when absent
Put(obj, key, val) ==
    [k \in (DOMAIN obj) \cup {key} |-> IF k = key THEN val ELSE obj[k]]

\* models.findIndex(m => m.modelName === modelName); 0 stands for -1
RECURSIVE FindIndexFrom(_, _, _)
FindIndexFrom(models, modelName, i) ==
    IF i > Len(models) THEN 0
    ELSE IF models[i].modelName = modelName THEN i
    ELSE FindIndexFrom(models, modelName, i + 1)

findIndex(models, modelName) == FindIndexFrom(models, modelName, 1)

\* [...models.slice(0, idx), ...models.slice(idx + 1, Infinity)]
RemoveAt(models, idx) ==
    [i \in 1..(Len(models) - 1) |-> IF i < idx THEN models[i] ELSE models[i + 1]]

\* [...models.slice(0, idx), item, ...models.slice(idx + 1, Infinity)]
ReplaceAt(models, idx, item) ==
    [i \in 1..Len(models) |-> IF i = idx THEN item ELSE models[i]]

modelSelectionsEqual(a, b) ==
    a.providerName = b.providerName /\ a.modelName = b.modelName

(***************************************************************************)
(* _computeModelOptions (lines 207-218)                                    *)
(***************************************************************************)
RECURSIVE OptionsOfModels(_, _)
OptionsOfModels(providerName, models) ==
    IF models = <<>> THEN <<>>
    ELSE (IF Head(models).isHidden THEN <<>>
          ELSE <<[text  |-> Head(models).modelName \o " (" \o providerName \o ")",
                  value |-> [providerName |-> providerName,
                             modelName    |-> Head(models).modelName]]>>)
         \o OptionsOfModels(providerName, Tail(models))

RECURSIVE ComputeModelOptionsFrom(_, _)
ComputeModelOptionsFrom(settingsOfProvider, i) ==
    IF i > Len(providerNames) THEN <<>>
    ELSE (IF ~settingsOfProvider[providerNames[i]]._enabled THEN <<>>
          ELSE OptionsOfModels(providerNames[i],
                               settingsOfProvider[providerNames[i]].models))
         \o ComputeModelOptionsFrom(settingsOfProvider, i + 1)

\* mutant: the options of every provider, the disabled ones too
RECURSIVE OptionsIgnoringEnabledFrom(_, _)
OptionsIgnoringEnabledFrom(settingsOfProvider, i) ==
    IF i > Len(providerNames) THEN <<>>
    ELSE OptionsOfModels(providerNames[i], settingsOfProvider[providerNames[i]].models)
         \o OptionsIgnoringEnabledFrom(settingsOfProvider, i + 1)

ComputeModelOptions_IgnoringEnabled(settingsOfProvider) ==
    OptionsIgnoringEnabledFrom(settingsOfProvider, 1)

_computeModelOptions(settingsOfProvider) ==
    ComputeModelOptionsFrom(settingsOfProvider, 1)

(***************************************************************************)
(* defaultState (lines 221-229)                                            *)
(***************************************************************************)
defaultModelNames(providerName) ==
    IF providerName = "anthropic" THEN <<"claude">> ELSE <<"gpt-4o">>

defaultModelInfo(names) ==
    [i \in 1..Len(names) |->
        [modelName |-> names[i], isDefault |-> TRUE, isHidden |-> FALSE]]

defaultSettingsOfProvider ==
    [p \in Range(providerNames) |->
        [_enabled |-> FALSE, apiKey |-> "",
         models |-> defaultModelInfo(defaultModelNames(p))]]

defaultFeatureFlagSettings ==
    [f \in Range(featureFlagNames) |-> TRUE]

defaultState ==
    [settingsOfProvider      |-> defaultSettingsOfProvider,
     modelSelectionOfFeature |-> [f \in Range(featureNames) |-> Null],
     featureFlagSettings     |-> defaultFeatureFlagSettings,
     _modelOptions           |-> _computeModelOptions(defaultSettingsOfProvider)]

(***************************************************************************)
(* The persistence boundary (lines 264-279).  JSON.stringify turns a       *)
(* document into text and encrypt turns text into a ciphertext; decrypt    *)
(* rejects what is no ciphertext and JSON.parse throws on what is no JSON  *)
(* text.  A result is [ok |-> TRUE, value |-> v] or [ok |-> FALSE].        *)
(***************************************************************************)
JSONstringify_WithoutDerived(doc) ==
    [kind |-> "json", value |-> [k \in DOMAIN doc \ {"_modelOptions"} |-> doc[k]]]

JSONstringify(doc) == [kind |-> "json", value |-> doc]

JSONparse(text) ==
    IF text.kind = "json" THEN [ok |-> TRUE, value |-> text.value]
    ELSE [ok |-> FALSE]

encrypt(text) == [kind |-> "cipher", plain |-> text]

decrypt(encrypted) ==
    IF encrypted.kind = "cipher" THEN [ok |-> TRUE, value |-> encrypted.plain]
    ELSE [ok |-> FALSE]

\* storage.get(STORAGE_KEY) when nothing was ever stored
Absent == [kind |-> "absent"]

\* a stored value that decrypt rejects
UndecryptableRecord == [kind |-> "garbage"]

\* a stored value that decrypts to text JSON.parse throws on
UnparsableRecord == encrypt([kind |-> "text"])

\* mutant: a record that cannot be read is treated like an absent one
ReadState_FallsBackToDefaults(encryptedState) ==
    IF encryptedState = Absent THEN [ok |-> TRUE, value |-> defaultState]
    ELSE IF ~decrypt(encryptedState).ok THEN [ok |-> TRUE, value |-> defaultState]
    ELSE IF ~JSONparse(decrypt(encryptedState).value).ok
         THEN [ok |-> TRUE, value |-> defaultState]
    ELSE JSONparse(decrypt(encryptedState).value)

\* _readState (lines 264-272) applied to what the constructor got from storage
_readState(encryptedState) ==
    IF encryptedState = Absent THEN [ok |-> TRUE, value |-> defaultState]
    ELSE IF ~decrypt(encryptedState).ok THEN [ok |-> FALSE]
    ELSE JSONparse(decrypt(encryptedState).value)

\* mutant: every method fires the tag of setSettingOfProvider
TagOf_AlwaysSettings(caller) == "settingsOfProvider"

\* the event tag each method fires after its persist (lines 326, 340, 360)
TagOf(caller) ==
    CASE caller = "setSettingOfProvider"       -> "settingsOfProvider"
      [] caller = "setFeatureFlag"             -> "featureFlagSettings"
      [] caller = "setModelSelectionOfFeature" -> "modelSelectionOfFeature"

Callers == {"setSettingOfProvider", "setFeatureFlag", "setModelSelectionOfFeature"}

EventProps == {"all", "settingsOfProvider", "featureFlagSettings",
               "modelSelectionOfFeature"}

(***************************************************************************)
(* The synchronous part of the mutations, as functions of this.state.      *)
(***************************************************************************)
\* mutant: the new value is written into the settings of every provider
NewSettingsOfProvider_EveryProvider(st, providerName, settingName, newVal) ==
    [q \in DOMAIN st.settingsOfProvider |->
        Put(st.settingsOfProvider[q], settingName, newVal)]

\* lines 285-291
NewSettingsOfProvider(st, providerName, settingName, newVal) ==
    Put(st.settingsOfProvider, providerName,
        Put(st.settingsOfProvider[providerName], settingName, newVal))

\* mutant: the new map holds the one feature only (no spread of the old map)
NewModelSelectionState_NoSpread(st, featureName, newVal) ==
    [st EXCEPT !.modelSelectionOfFeature = [k \in {featureName} |-> newVal]]

\* lines 346-354: setModelSelectionOfFeature up to `this.state = newState`
NewModelSelectionState(st, featureName, newVal) ==
    [st EXCEPT !.modelSelectionOfFeature =
        Put(st.modelSelectionOfFeature, featureName, newVal)]

\* newModelsList.findIndex(m => modelSelectionsEqual(m.value, sel)); 0 for -1
RECURSIVE SelectionIndexFrom(_, _, _)
SelectionIndexFrom(modelsList, sel, i) ==
    IF i > Len(modelsList) THEN 0
    ELSE IF modelSelectionsEqual(modelsList[i].value, sel) THEN i
    ELSE SelectionIndexFrom(modelsList, sel, i + 1)

\* line 314
SelnIdx(modelsList, currentSelection) ==
    IF currentSelection = Null THEN 0
    ELSE SelectionIndexFrom(modelsList, currentSelection, 1)

\* mutant: a feature with no valid selection is always given null
FallbackSelection_AlwaysNull(modelsList) == Null

\* lines 316-321: the value a feature with no valid selection is given
FallbackSelection(modelsList) ==
    IF Len(modelsList) # 0 THEN modelsList[1].value ELSE Null

\* lines 311-322: the loop over featureNames, from the i-th feature on
RECURSIVE FixSelectionsFrom(_, _, _, _)
FixSelectionsFrom(st, selectionOfFeature, modelsList, i) ==
    IF i > Len(featureNames) THEN st
    ELSE FixSelectionsFrom(
            IF SelnIdx(modelsList, selectionOfFeature[featureNames[i]]) = 0
            THEN NewModelSelectionState(st, featureNames[i],
                                        FallbackSelection(modelsList))
            ELSE st,
            selectionOfFeature, modelsList, i + 1)

\* mutant: enabling or disabling a provider does not recompute the list
ModelsListChanged_OnlyModels(settingName) ==
    settingName = "models"

\* line 296
ModelsListChanged(settingName) ==
    settingName = "models" \/ settingName = "_enabled"

\* lines 299-304
NewSettingsState(st, providerName, settingName, newVal) ==
    [modelSelectionOfFeature |-> st.modelSelectionOfFeature,
     settingsOfProvider      |-> NewSettingsOfProvider(st, providerName, settingName, newVal),
     featureFlagSettings     |-> st.featureFlagSettings,
     _modelOptions           |->
        IF ModelsListChanged(settingName)
        THEN _computeModelOptions(
                NewSettingsOfProvider(st, providerName, settingName, newVal))
        ELSE st._modelOptions]

\* lines 281-323: this.state when setSettingOfProvider reaches its await
SetSettingOfProviderState(st, providerName, settingName, newVal) ==
    IF ModelsListChanged(settingName)
    THEN FixSelectionsFrom(
            NewSettingsState(st, providerName, settingName, newVal),
            st.modelSelectionOfFeature,
            NewSettingsState(st, providerName, settingName, newVal)._modelOptions,
            1)
    ELSE NewSettingsState(st, providerName, settingName, newVal)

\* lines 331-338
SetFeatureFlagState(st, flagName, newVal) ==
    [st EXCEPT !.featureFlagSettings = Put(st.featureFlagSettings, flagName, newVal)]

\* models.filter(m => !m.isDefault)
RECURSIVE NonDefaultModels(_)
NonDefaultModels(models) ==
    IF models = <<>> THEN <<>>
    ELSE (IF Head(models).isDefault THEN <<>> ELSE <<Head(models)>>)
         \o NonDefaultModels(Tail(models))

\* modelInfoOfDefaultNames(names, { isAutodetected: true, existingModels })
modelInfoOfDefaultNames(names, existingModels) ==
    [i \in 1..Len(names) |->
        [modelName      |-> names[i],
         isDefault      |-> TRUE,
         isAutodetected |-> TRUE,
         isHidden       |->
            IF findIndex(existingModels, names[i]) = 0 THEN FALSE
            ELSE existingModels[findIndex(existingModels, names[i])].isHidden]]

SetDefaultModelsList_DropsUserModels(models, newDefaultModelNames) ==
    modelInfoOfDefaultNames(newDefaultModelNames, models)

\* lines 366-371
SetDefaultModelsList(models, newDefaultModelNames) ==
    modelInfoOfDefaultNames(newDefaultModelNames, models) \o NonDefaultModels(models)

\* lines 378-382
ToggleModelHiddenList(models, modelIdx) ==
    ReplaceAt(models, modelIdx,
              [models[modelIdx] EXCEPT !.isHidden = ~models[modelIdx].isHidden])

\* mutant: the new entry is put in front of the prior ones
AddModelList_Prepends(models, modelName) ==
    <<[modelName |-> modelName, isDefault |-> FALSE, isHidden |-> FALSE]>> \o models

\* lines 389-392
AddModelList(models, modelName) ==
    Append(models, [modelName |-> modelName, isDefault |-> FALSE, isHidden |-> FALSE])

\* mutant: addModel never finds the name
AddModelSkips_Never(models, modelName) == FALSE

\* line 388: addModel returns early when the name exists
AddModelSkips(models, modelName) == findIndex(models, modelName) # 0

\* mutant: models.slice(delIdx) in place of models.slice(delIdx + 1)
DeleteModelList_KeepsEntry(models, delIdx) ==
    SubSeq(models, 1, delIdx - 1) \o SubSeq(models, delIdx, Len(models))

\* lines 399-402
DeleteModelList(models, delIdx) == RemoveAt(models, delIdx)

(***************************************************************************)
(* Inputs.  A record found in storage at start-up was written by           *)
(* _storeState in an earlier run, or is corrupt, or is absent.             *)
(***************************************************************************)
StoredDocs ==
    {SetSettingOfProviderState(defaultState, "anthropic", "_enabled", TRUE)}

\* a record decrypt rejects takes the path of one JSON.parse throws on
\* (lines 270-271), so one of the two is drawn
InitialRecords ==
    {Absent, UnparsableRecord}
        \cup {encrypt(JSONstringify(d)) : d \in StoredDocs}

ModelListInputs ==
    {<<[modelName |-> "gpt-4o", isDefault |-> FALSE, isHidden |-> TRUE]>>}

SettingInputs ==
    {<<"_enabled", TRUE>>, <<"_enabled", FALSE>>}
        \cup {<<"apiKey", k>> : k \in ApiKeyInputs}
        \cup {<<"models", l>> : l \in ModelListInputs}

DefaultNameInputs == {<<>>, <<"gpt-4o">>}

FeatureInputs == {"Ctrl+K"}

SelectionInputs ==
    {[providerName |-> "openai", modelName |-> "gpt-4o"]}

(***************************************************************************)
(* Init: the service as the constructor leaves it (lines 242-262): state   *)
(* is defaultState and the read of storage is in flight.                   *)
(***************************************************************************)
NoCall == [op |-> "constructor", args |-> <<>>, ret |-> <<>>, inner |-> <<>>]

Init ==
    /\ initRead \in InitialRecords
    /\ storage = initRead
    /\ storedBy = 0
    /\ state = defaultState
    /\ phase = "ReadingStorage"
    /\ inflight = <<>>
    /\ fired = [t \in EventProps |-> 0]
    /\ resolved = 0
    /\ unhandled = 0
    /\ calls = 0
    /\ issued = [c \in Callers |-> 0]
    /\ failed = [c \in Callers |-> 0]
    /\ flagSet = [f \in Range(featureFlagNames) |-> <<>>]
    /\ last = NoCall
    /\ prev = [state |-> defaultState, issued |-> [c \in Callers |-> 0]]
    /\ post = defaultState

\* the tag of the event fired when the initial read completes (line 260)
InitEventProp == "all"

\* mutant: the document read is dropped and the state stays as it is
InstalledState_KeepsCurrent(current, readDoc) == current

\* line 258: the state the completion of the initial read installs
InstalledState(current, readDoc) == readDoc

\* lines 257-261: the continuation of _readState()
ReadStateDone ==
    /\ phase = "ReadingStorage"
    /\ _readState(initRead).ok
    /\ state' = InstalledState(state, _readState(initRead).value)
    /\ resolved' = resolved + 1
    /\ fired' = [fired EXCEPT ![InitEventProp] = @ + 1]
    /\ phase' = "Ready"
    /\ flagSet' = [f \in Range(featureFlagNames) |-> <<>>]
    /\ last' = [op |-> "readState", args |-> <<>>, ret |-> <<>>, inner |-> <<>>]
    /\ prev' = [state |-> state, issued |-> issued]
    /\ post' = state'
    /\ UNCHANGED <<storage, storedBy, initRead, inflight, unhandled, calls, issued, failed>>

\* lines 257 and 270-271: _readState() rejects and nothing handles it
ReadStateFails ==
    /\ phase = "ReadingStorage"
    /\ ~_readState(initRead).ok
    /\ phase' = "Failed"
    /\ unhandled' = unhandled + 1
    /\ UNCHANGED <<state, storage, storedBy, initRead, inflight, fired, resolved,
                   calls, issued, failed, flagSet, last, prev, post>>

(***************************************************************************)
(* _storeState (lines 275-279).  The document is serialised when the call  *)
(* is made; the write to storage and the caller's event happen when        *)
(* encrypt answers.  Nothing orders the answers of two encrypt calls.      *)
(***************************************************************************)
StoreStateCall(caller) ==
    /\ inflight' = Append(inflight, [doc    |-> JSONstringify(state'),
                                     caller |-> caller,
                                     call   |-> calls + 1])
    /\ issued' = [issued EXCEPT ![caller] = @ + 1]

RemoveInflight(i) ==
    [j \in 1..(Len(inflight) - 1) |-> IF j < i THEN inflight[j] ELSE inflight[j + 1]]

\* the events a method fires once its persist is done (lines 326, 340, 360)
FiredAfterStore(firedNow, caller) ==
    [firedNow EXCEPT ![TagOf(caller)] = @ + 1]

\* lines 277-278 after the await, then the caller's fire
StoreStateDone(i) ==
    /\ storage' = encrypt(inflight[i].doc)
    /\ storedBy' = inflight[i].call
    /\ fired' = FiredAfterStore(fired, inflight[i].caller)
    /\ inflight' = RemoveInflight(i)
    /\ UNCHANGED <<state, initRead, phase, resolved, unhandled, calls, issued,
                   failed, flagSet, last, prev, post>>

FiredAfterFailedStore_FiresAnyway(firedNow, caller) ==
    [firedNow EXCEPT ![TagOf(caller)] = @ + 1]

\* the await of _storeState throws (lines 325, 339, 359), so the fire on the
\* line after it (326, 340, 360) is never reached
FiredAfterFailedStore(firedNow, caller) ==
    firedNow

\* encrypt rejects: the method throws out of its await, nothing is stored or fired
StoreStateFails(i) ==
    /\ failed' = [failed EXCEPT ![inflight[i].caller] = @ + 1]
    /\ unhandled' = unhandled + 1
    /\ fired' = FiredAfterFailedStore(fired, inflight[i].caller)
    /\ inflight' = RemoveInflight(i)
    /\ UNCHANGED <<state, storage, storedBy, initRead, phase, resolved,
                   calls, issued, flagSet, last, prev, post>>

(***************************************************************************)
(* The public methods, each up to its first await.                         *)
(***************************************************************************)
Recorded(op, args, ret, inner) ==
    /\ calls' = calls + 1
    /\ last' = [op |-> op, args |-> args, ret |-> ret, inner |-> inner]
    /\ prev' = [state |-> state, issued |-> issued]
    /\ post' = state'

InnerCall(providerName, settingName, newVal) ==
    <<[providerName |-> providerName, settingName |-> settingName, newVal |-> newVal]>>

\* lines 281-325
SetSettingOfProviderCall(providerName, settingName, newVal) ==
    /\ state' = SetSettingOfProviderState(state, providerName, settingName, newVal)
    /\ StoreStateCall("setSettingOfProvider")
    /\ UNCHANGED <<storage, storedBy, initRead, phase, fired, resolved, unhandled,
                   failed, flagSet>>

NoEffect ==
    UNCHANGED <<state, storage, storedBy, initRead, phase, inflight, fired,
                resolved, unhandled, issued, failed, flagSet>>

setSettingOfProvider(providerName, setting) ==
    /\ calls < MaxCalls
    /\ SetSettingOfProviderCall(providerName, setting[1], setting[2])
    /\ Recorded("setSettingOfProvider", <<providerName, setting[1]>>, <<>>,
                InnerCall(providerName, setting[1], setting[2]))

\* lines 330-340
setFeatureFlag(flagName, newVal) ==
    /\ calls < MaxCalls
    /\ state' = SetFeatureFlagState(state, flagName, newVal)
    /\ StoreStateCall("setFeatureFlag")
    /\ flagSet' = [flagSet EXCEPT ![flagName] = <<newVal>>]
    /\ Recorded("setFeatureFlag", <<flagName>>, <<>>, <<>>)
    /\ UNCHANGED <<storage, storedBy, initRead, phase, fired, resolved, unhandled,
                   failed>>

ReturnsBeforeEffects_Never(doNotApplyEffects) ==
    FALSE

\* lines 356-357: if (options?.doNotApplyEffects) return
ReturnsBeforeEffects(doNotApplyEffects) ==
    doNotApplyEffects

\* lines 345-360
setModelSelectionOfFeature(featureName, newVal, doNotApplyEffects) ==
    /\ calls < MaxCalls
    /\ state' = NewModelSelectionState(state, featureName, newVal)
    /\ IF ReturnsBeforeEffects(doNotApplyEffects)
       THEN UNCHANGED <<inflight, issued>>
       ELSE StoreStateCall("setModelSelectionOfFeature")
    /\ Recorded("setModelSelectionOfFeature",
                <<featureName, doNotApplyEffects, newVal>>, <<>>, <<>>)
    /\ UNCHANGED <<storage, storedBy, initRead, phase, fired, resolved, unhandled,
                   failed, flagSet>>

\* lines 365-373
setDefaultModels(providerName, newDefaultModelNames) ==
    /\ calls < MaxCalls
    /\ SetSettingOfProviderCall(providerName, "models",
            SetDefaultModelsList(state.settingsOfProvider[providerName].models,
                                 newDefaultModelNames))
    /\ Recorded("setDefaultModels", <<providerName, newDefaultModelNames>>, <<>>,
            InnerCall(providerName, "models",
                SetDefaultModelsList(state.settingsOfProvider[providerName].models,
                                     newDefaultModelNames)))

\* lines 374-384
toggleModelHidden(providerName, modelName) ==
    /\ calls < MaxCalls
    /\ LET models   == state.settingsOfProvider[providerName].models
           modelIdx == findIndex(models, modelName)
       IN  IF modelIdx = 0
           THEN NoEffect /\ Recorded("toggleModelHidden", <<providerName, modelName>>,
                                     <<>>, <<>>)
           ELSE /\ SetSettingOfProviderCall(providerName, "models",
                        ToggleModelHiddenList(models, modelIdx))
                /\ Recorded("toggleModelHidden", <<providerName, modelName>>, <<>>,
                        InnerCall(providerName, "models",
                                  ToggleModelHiddenList(models, modelIdx)))

\* lines 385-394
addModel(providerName, modelName) ==
    /\ calls < MaxCalls
    /\ LET models == state.settingsOfProvider[providerName].models
       IN  IF AddModelSkips(models, modelName)
           THEN NoEffect /\ Recorded("addModel", <<providerName, modelName>>, <<>>, <<>>)
           ELSE /\ SetSettingOfProviderCall(providerName, "models",
                        AddModelList(models, modelName))
                /\ Recorded("addModel", <<providerName, modelName>>, <<>>,
                        InnerCall(providerName, "models", AddModelList(models, modelName)))

\* lines 395-405
deleteModel(providerName, modelName) ==
    /\ calls < MaxCalls
    /\ LET models == state.settingsOfProvider[providerName].models
           delIdx == findIndex(models, modelName)
       IN  IF delIdx = 0
           THEN NoEffect /\ Recorded("deleteModel", <<providerName, modelName>>,
                                     <<FALSE>>, <<>>)
           ELSE /\ SetSettingOfProviderCall(providerName, "models",
                        DeleteModelList(models, delIdx))
                /\ Recorded("deleteModel", <<providerName, modelName>>, <<TRUE>>,
                        InnerCall(providerName, "models", DeleteModelList(models, delIdx)))

(***************************************************************************)
(* The Reactive Bridge (react/src/util/services.tsx): module-level caches  *)
(* of six services' states, one listener set for each, _registerServices,  *)
(* useAccessor and the state hooks.  A component is one use of one hook;   *)
(* its life is: the hook is called in the first render (useState), then    *)
(* its effect runs, then the effect's cleanup runs when it unmounts.       *)
(***************************************************************************)
VARIABLES
    wasCalled,        \* line 70
    reactAccessor_,   \* line 184: null, or the accessor handed to _registerAccessor
    serviceState,     \* the state each of the six services holds
    subscriptions,    \* the handlers the bridge has subscribed to each service's event
    cachedState,      \* lines 50-66: quickEditState, ..., colorThemeState
    stateListeners,   \* lines 51-67: the listener set of each domain
    status,           \* of each component: "unmounted", "rendered", "mounted"
    view,             \* of each component: the s of its useState
    staleDeliveries,  \* calls of a setter whose component is not mounted
    changes,          \* changes of service state made
    lastB             \* the last step of the bridge or of a component

bridgeVars == <<wasCalled, reactAccessor_, serviceState, subscriptions, cachedState,
                stateListeners, status, view, staleDeliveries, changes, lastB>>

MaxChanges == 1

\* the components that can be in the tree at once
MaxMounted == 2

\* one domain for each cache of lines 50-66
Domains == {"quickEdit", "sidebar", "threads", "settings", "refreshModel", "colorTheme"}

\* the components: two uses of useSettingsState, one of useQuickEditState and
\* one of useIsDark
Components == {<<"settings", 1>>, <<"settings", 2>>, <<"quickEdit", 1>>, <<"colorTheme", 1>>}

AccessorInputs == {"accessor1", "accessor2"}

\* the value of a `let` that has not been assigned
Undefined == [isUndefined |-> TRUE]

JsBool(b) == [bool |-> b]

\* ColorScheme (platform/theme/common/theme)
ColorSchemes == {"dark", "light", "hcDark", "hcLight"}

\* what a service holds when the workbench starts
InitialServiceState(d) ==
    IF d = "colorTheme" THEN [type |-> "light"] ELSE [rev |-> 0]

\* the states a service can change to
ChangedServiceStates(d, current) ==
    IF d = "colorTheme"
    THEN {[type |-> t] : t \in ColorSchemes \ {current.type}}
    ELSE {[rev |-> current.rev + 1]}

\* lastB after a change of a service or the effect of a hook
NoBridgeCall == [op |-> "none"]

\* the module as loaded (lines 50-70, 184), the settings service holding
\* settingsServiceState
BridgeInitWith(settingsServiceState) ==
    /\ wasCalled = FALSE
    /\ reactAccessor_ = Null
    /\ serviceState = [d \in Domains |-> IF d = "settings" THEN settingsServiceState
                                          ELSE InitialServiceState(d)]
    /\ subscriptions = [d \in Domains |-> 0]
    /\ cachedState = [d \in Domains |-> Undefined]
    /\ stateListeners = [d \in Domains |-> {}]
    /\ status = [c \in Components |-> "unmounted"]
    /\ view = [c \in Components |-> Undefined]
    /\ staleDeliveries = 0
    /\ changes = 0
    /\ lastB = NoBridgeCall

BridgeInit ==
    BridgeInitWith(InitialServiceState("settings"))

RegisterReturnsEarly_Never(called) ==
    FALSE

\* lines 76-80: if (wasCalled) return
RegisterReturnsEarly(called) ==
    called

\* the part of the bridge a call of _registerServices could touch
Registration ==
    [cachedState    |-> cachedState,
     stateListeners |-> stateListeners,
     reactAccessor_ |-> reactAccessor_,
     subscriptions  |-> subscriptions]

\* lines 71-146
_registerServices(accessor) ==
    /\ lastB' = [op |-> "_registerServices", accessor |-> accessor,
                 again |-> wasCalled, before |-> Registration]
    /\ IF RegisterReturnsEarly(wasCalled)
       THEN UNCHANGED <<wasCalled, reactAccessor_, cachedState, subscriptions>>
       ELSE /\ wasCalled' = TRUE
            /\ reactAccessor_' = [accessor |-> accessor]
            /\ cachedState' = [d \in Domains |-> serviceState[d]]
            /\ subscriptions' = [d \in Domains |-> subscriptions[d] + 1]
    /\ UNCHANGED <<serviceState, stateListeners, status, view, staleDeliveries,
                   changes>>

UseAccessorThrows_Never(accessor) ==
    FALSE

\* lines 190-192: if (!reactAccessor_) throw
UseAccessorThrows(accessor) ==
    accessor = Null

\* lines 189-196
useAccessor ==
    /\ lastB' = [op |-> "useAccessor", threw |-> UseAccessorThrows(reactAccessor_)]
    /\ UNCHANGED <<wasCalled, reactAccessor_, serviceState, subscriptions, cachedState,
                   stateListeners, status, view, staleDeliveries, changes>>

\* the views after every listener of the domain was called with the new state
\* (lines 98, 106, 114, 122, 130, 141)
NotifiedViews(d, newState) ==
    [c \in Components |-> IF c \in stateListeners[d] THEN newState ELSE view[c]]

\* the listeners of the domain whose component is not mounted
StaleListeners(d) == {c \in stateListeners[d] : status[c] # "mounted"}

\* mutant: the handler calls the listeners and leaves the cache as it was
HandlerRuns_CacheKept(d, newState) ==
    IF subscriptions[d] > 0
    THEN /\ view' = NotifiedViews(d, newState)
         /\ staleDeliveries' = staleDeliveries
                 + subscriptions[d] * Cardinality(StaleListeners(d))
         /\ UNCHANGED cachedState
    ELSE UNCHANGED <<cachedState, view, staleDeliveries>>

\* the handler the bridge subscribed to the event of the domain (lines 96-99,
\* 104-107, 112-115, 120-123, 128-132, 139-142), the service then holding
\* newState: it refreshes the cache and calls the listeners
HandlerRuns(d, newState) ==
    IF subscriptions[d] > 0
    THEN /\ cachedState' = [cachedState EXCEPT ![d] = newState]
         /\ view' = NotifiedViews(d, newState)
         /\ staleDeliveries' = staleDeliveries
                 + subscriptions[d] * Cardinality(StaleListeners(d))
    ELSE UNCHANGED <<cachedState, view, staleDeliveries>>

\* a service changes its state and fires its change event; every handler the
\* bridge subscribed (lines 96-99, 104-107, 112-115, 120-123, 128-132, 139-142)
\* refreshes the cache and calls the listeners
ServiceChanges(d, newState) ==
    /\ changes < MaxChanges
    /\ changes' = changes + 1
    /\ serviceState' = [serviceState EXCEPT ![d] = newState]
    /\ HandlerRuns(d, newState)
    /\ lastB' = NoBridgeCall
    /\ UNCHANGED <<wasCalled, reactAccessor_, subscriptions, stateListeners, status>>

\* lines 271-272: useIsDark compares the theme with the two dark schemes
IsDark(s) ==
    IF s = Undefined THEN FALSE ELSE s.type \in {"dark", "hcDark"}

HookReturn_AlwaysTheState(d, s) ==
    s

\* what the hook of the domain returns for the local state s
\* (lines 210, 220, 230, 240, 251; for useIsDark lines 271-273)
HookReturn(d, s) ==
    IF d = "colorTheme" THEN JsBool(IsDark(s)) ELSE s

\* the first render of a component: useState(cache) (lines 204, 214, 224, 234,
\* 245, 264) and the return of the hook
useStateHook(c) ==
    /\ status[c] = "unmounted"
    /\ Cardinality({k \in Components : status[k] # "unmounted"}) < MaxMounted
    /\ status' = [status EXCEPT ![c] = "rendered"]
    /\ view' = [view EXCEPT ![c] = cachedState[c[1]]]
    /\ lastB' = [op |-> "useStateHook", component |-> c, registered |-> wasCalled,
                 returned |-> HookReturn(c[1], cachedState[c[1]])]
    /\ UNCHANGED <<wasCalled, reactAccessor_, serviceState, subscriptions, cachedState,
                   stateListeners, staleDeliveries, changes>>

\* lines 207, 217, 227, 237, 248, 267: listeners.add(ss)
ListenersAfterEffect(listenersNow, c) ==
    listenersNow \cup {c}

\* the effect of the hook, run once after the first render (lines 205-209, ...)
runEffect(c) ==
    /\ status[c] = "rendered"
    /\ status' = [status EXCEPT ![c] = "mounted"]
    /\ view' = [view EXCEPT ![c] = cachedState[c[1]]]
    /\ stateListeners' = [stateListeners EXCEPT
                            ![c[1]] = ListenersAfterEffect(stateListeners[c[1]], c)]
    /\ lastB' = NoBridgeCall
    /\ UNCHANGED <<wasCalled, reactAccessor_, serviceState, subscriptions, cachedState,
                   staleDeliveries, changes>>

ListenersAfterCleanup_Kept(listenersNow, c) ==
    listenersNow

\* lines 208, 218, 228, 238, 249, 268: listeners.delete(ss)
ListenersAfterCleanup(listenersNow, c) ==
    listenersNow \ {c}

\* the component unmounts: the cleanup the effect returned runs, and the
\* component's local state is gone with it
runCleanup(c) ==
    /\ status[c] = "mounted"
    /\ status' = [status EXCEPT ![c] = "unmounted"]
    /\ view' = [view EXCEPT ![c] = Undefined]
    /\ stateListeners' = [stateListeners EXCEPT
                            ![c[1]] = ListenersAfterCleanup(stateListeners[c[1]], c)]
    /\ lastB' = [op |-> "runCleanup", component |-> c]
    /\ UNCHANGED <<wasCalled, reactAccessor_, serviceState, subscriptions, cachedState,
                   staleDeliveries, changes>>

(***************************************************************************)
(* VoidConfigStateService (voidConfigService.ts, lines 55-140), the        *)
(* earlier settings service kept in the same file.  Its two methods build  *)
(* the new state from this.state, await the persist of it, and assign      *)
(* this.state only after the await.                                        *)
(***************************************************************************)
VARIABLES
    configState,     \* this.state : VoidConfigState (line 64)
    configStorage,   \* the value kept under STORAGE_KEY
    configInitRead,  \* the value the constructor's read found
    configPhase,     \* "ReadingStorage" until the initial read has completed
    configPending,   \* the persists awaited, each with the newState of its call
    configFired,     \* events fired, by emitter
    configCalls,     \* calls of the two methods made
    configFailed,    \* persists that failed
    configEarly,     \* a method was called before the initial read completed
    configExpected   \* the state if every call had been applied where it was made

configVars == <<configState, configStorage, configInitRead, configPhase, configPending,
                configFired, configCalls, configFailed, configEarly, configExpected>>

MaxConfigCalls == 2

\* defaultVoidProviderState (voidConfigTypes)
defaultVoidProviderState ==
    [p \in Range(providerNames) |-> [apiKey |-> ""]]

\* lines 45-51
configDefaultState ==
    [settingsOfProvider      |-> defaultVoidProviderState,
     modelSelectionOfFeature |-> [f \in Range(featureNames) |-> Null]]

\* lines 82-90
_readVoidConfigState(encryptedPartialConfig) ==
    IF encryptedPartialConfig = Absent THEN configDefaultState
    ELSE JSONparse(decrypt(encryptedPartialConfig).value).value

ConfigStoredDocs ==
    {[configDefaultState EXCEPT !.settingsOfProvider["openai"].apiKey = "sk-0"]}

ConfigInit ==
    /\ configInitRead \in {Absent} \cup {encrypt(JSONstringify(d)) : d \in ConfigStoredDocs}
    /\ configStorage = configInitRead
    /\ configState = configDefaultState
    /\ configPhase = "ReadingStorage"
    /\ configPending = <<>>
    /\ configFired = [onDidChangeState |-> 0, onDidGetInitState |-> 0]
    /\ configCalls = 0
    /\ configFailed = 0
    /\ configEarly = FALSE
    /\ configExpected = configDefaultState

\* line 79 and _setState(s, 'initialState') (lines 132-137)
ConfigReadDone ==
    /\ configPhase = "ReadingStorage"
    /\ configPhase' = "Ready"
    /\ configState' = _readVoidConfigState(configInitRead)
    /\ configExpected' = _readVoidConfigState(configInitRead)
    /\ configFired' = [configFired EXCEPT !.onDidGetInitState = @ + 1]
    /\ UNCHANGED <<configStorage, configInitRead, configPending, configCalls,
                   configFailed, configEarly>>

\* lines 99-108
ConfigNewSettingState(st, providerName, option, newVal) ==
    [settingsOfProvider |->
        Put(st.settingsOfProvider, providerName,
            Put(st.settingsOfProvider[providerName], option, newVal)),
     modelSelectionOfFeature |-> st.modelSelectionOfFeature]

\* lines 116-122
ConfigNewSelectionState(st, featureName, newVal) ==
    [settingsOfProvider      |-> st.settingsOfProvider,
     modelSelectionOfFeature |-> Put(st.modelSelectionOfFeature, featureName, newVal)]

\* a method up to its await (lines 111, 125): newState is handed to
\* _storeVoidConfigState and this.state is left as it is
ConfigCall(newState, newExpected) ==
    /\ configCalls < MaxConfigCalls
    /\ configCalls' = configCalls + 1
    /\ configPending' = Append(configPending, newState)
    /\ configExpected' = newExpected
    /\ configEarly' = (configEarly \/ configPhase # "Ready")
    /\ UNCHANGED <<configState, configStorage, configInitRead, configPhase,
                   configFired, configFailed>>

\* lines 98-113
VoidConfig_setSettingOfProvider(providerName, option, newVal) ==
    ConfigCall(ConfigNewSettingState(configState, providerName, option, newVal),
               ConfigNewSettingState(configExpected, providerName, option, newVal))

\* lines 115-127
VoidConfig_setModelSelectionOfFeature(featureName, newVal) ==
    ConfigCall(ConfigNewSelectionState(configState, featureName, newVal),
               ConfigNewSelectionState(configExpected, featureName, newVal))

ConfigRemovePending(i) ==
    [j \in 1..(Len(configPending) - 1) |->
        IF j < i THEN configPending[j] ELSE configPending[j + 1]]

\* encrypt answers: lines 94-95, then _setState(newState) (lines 112, 126, 132-135)
ConfigStoreDone(i) ==
    /\ configStorage' = encrypt(JSONstringify(configPending[i]))
    /\ configState' = configPending[i]
    /\ configFired' = [configFired EXCEPT !.onDidChangeState = @ + 1]
    /\ configPending' = ConfigRemovePending(i)
    /\ UNCHANGED <<configInitRead, configPhase, configCalls, configFailed, configEarly,
                   configExpected>>

\* encrypt rejects: the method throws out of its await before _setState
ConfigStoreFails(i) ==
    /\ configFailed' = configFailed + 1
    /\ configPending' = ConfigRemovePending(i)
    /\ UNCHANGED <<configState, configStorage, configInitRead, configPhase, configFired,
                   configCalls, configEarly, configExpected>>

ConfigKeyInputs == {"sk-1"}

(***************************************************************************)
(* The settings domain of the bridge on the service itself: the state the  *)
(* "settings" service holds is the state of VoidSettingsService, and the   *)
(* bridge's handler (services.tsx, lines 122-125) runs when the service    *)
(* fires onDidChangeState (voidConfigService.ts, lines 260, 326, 340, 360).*)
(***************************************************************************)
VARIABLES
    eventLog    \* what happened for each persisting mutation, in order

\* what a call that issues a persist adds to the log: this.state is assigned
\* (lines 322, 337, 354) before _storeState is awaited
CallEvents(n, persists) ==
    IF persists THEN <<[ev |-> "memory", call |-> n]>> ELSE <<>>

\* mutant: the event is fired before the document is stored
StoreDoneEvents_FiredFirst(n, subscribed, listeners, cached) ==
    <<[ev |-> "fired", call |-> n]>>
        \o (IF subscribed
            THEN <<[ev |-> "cache", call |-> n, value |-> cached],
                   [ev |-> "listeners", call |-> n, called |-> listeners,
                    value |-> cached]>>
            ELSE <<>>)
        \o <<[ev |-> "stored", call |-> n]>>

\* what the completion of persist n adds to the log: store (line 278), then
\* the fire of the line after the await (326, 340, 360), and in the fire the
\* bridge's handler when it is subscribed: the cache is assigned (services.tsx
\* line 123), then each listener is called with it (line 124)
StoreDoneEvents(n, subscribed, listeners, cached) ==
    <<[ev |-> "stored", call |-> n], [ev |-> "fired", call |-> n]>>
        \o (IF subscribed
            THEN <<[ev |-> "cache", call |-> n, value |-> cached],
                   [ev |-> "listeners", call |-> n, called |-> listeners,
                    value |-> cached]>>
            ELSE <<>>)

\* a method of the service runs up to its await; the bridge is not told
CoupledCall(Method) ==
    /\ Method
    /\ serviceState' = [serviceState EXCEPT !["settings"] = state']
    /\ eventLog' = eventLog \o CallEvents(calls', Len(inflight') > Len(inflight))
    /\ lastB' = NoBridgeCall
    /\ UNCHANGED <<wasCalled, reactAccessor_, subscriptions, cachedState, stateListeners,
                   status, view, staleDeliveries, changes>>

\* a persist completes and its method fires: the handler runs in the fire
CoupledStoreDone(i) ==
    /\ StoreStateDone(i)
    /\ HandlerRuns("settings", state)
    /\ eventLog' = eventLog \o StoreDoneEvents(inflight[i].call,
                                               subscriptions["settings"] > 0,
                                               stateListeners["settings"],
                                               cachedState'["settings"])
    /\ lastB' = NoBridgeCall
    /\ UNCHANGED <<wasCalled, reactAccessor_, serviceState, subscriptions,
                   stateListeners, status, changes>>

\* a persist fails: nothing is fired, so the handler does not run
CoupledStoreFails(i) ==
    /\ StoreStateFails(i)
    /\ UNCHANGED bridgeVars
    /\ UNCHANGED eventLog

\* the initial read completes: the state read is installed and 'all' is fired
\* (lines 258-260), so the handler runs
CoupledReadDone ==
    /\ ReadStateDone
    /\ serviceState' = [serviceState EXCEPT !["settings"] = state']
    /\ HandlerRuns("settings", state')
    /\ lastB' = NoBridgeCall
    /\ UNCHANGED <<wasCalled, reactAccessor_, subscriptions, stateListeners, status,
                   changes, eventLog>>

\* the inputs of the methods, and the components using useSettingsState
CoupledProviders == {"openai"}

CoupledSettings == {<<"_enabled", TRUE>>}

SettingsComponents == {c \in Components : c[1] = "settings"}

(***************************************************************************)
(* CtrlKChat (CtrlKChat.tsx): one instance of the component, its input box *)
(* and the applies inlineDiffsService runs for it.                         *)
(***************************************************************************)
VARIABLES
    instructions,             \* line 40: the text of the input, a sequence of characters
    currentlyStreamingIdRef,  \* line 47: undefined, or the id startApplying returned
    isStreaming,              \* line 48
    inputEnabled,             \* the input box: disable() (line 52), enable() (line 65)
    applying,                 \* the applies started (lines 53-57) and not ended
    nextId,                   \* the id the next apply gets
    lastC                     \* the last handler run

chatVars == <<instructions, currentlyStreamingIdRef, isStreaming, inputEnabled,
              applying, nextId, lastC>>

\* applies the service can be asked to start
MaxApplies == 2

RECURSIVE TrimStart(_)
TrimStart(str) ==
    IF str # <<>> /\ Head(str) = " " THEN TrimStart(Tail(str)) ELSE str

RECURSIVE TrimEnd(_)
TrimEnd(str) ==
    IF str # <<>> /\ str[Len(str)] = " "
    THEN TrimEnd(SubSeq(str, 1, Len(str) - 1))
    ELSE str

\* String.prototype.trim
trim(str) == TrimEnd(TrimStart(str))

\* line 45: !instructions.trim()
isDisabled == trim(instructions) = <<>>

\* what can be typed into the input
InstructionInputs == {<<>>, <<" ">>, <<"a">>, <<" ", "a">>, <<"a", " ">>, <<" ", " ">>}

\* the component and its applies, as a handler finds them
ChatSnapshot ==
    [instructions |-> instructions, ref |-> currentlyStreamingIdRef,
     isStreaming |-> isStreaming, inputEnabled |-> inputEnabled, applying |-> applying]

NoChatCall == [op |-> "render"]

\* lines 40-48: the first render
ChatInit ==
    /\ instructions = <<>>
    /\ currentlyStreamingIdRef = Undefined
    /\ isStreaming = FALSE
    /\ inputEnabled = TRUE
    /\ applying = {}
    /\ nextId = 1
    /\ lastC = NoChatCall

\* lines 41-44
onChangeText(newStr) ==
    /\ instructions' = newStr
    /\ lastC' = [op |-> "onChangeText"]
    /\ UNCHANGED <<currentlyStreamingIdRef, isStreaming, inputEnabled, applying, nextId>>

SubmitReturnsEarly_Never(ref) ==
    FALSE

\* line 51: if (currentlyStreamingIdRef.current !== undefined) return
SubmitReturnsEarly(ref) ==
    ref # Undefined

\* lines 50-60; reached tells whether the event got as far as calling onSubmit
onSubmit(event, reached) ==
    /\ nextId <= MaxApplies
    /\ lastC' = [op |-> event, before |-> ChatSnapshot,
                 started |-> reached /\ ~SubmitReturnsEarly(currentlyStreamingIdRef)]
    /\ IF reached /\ ~SubmitReturnsEarly(currentlyStreamingIdRef)
       THEN /\ inputEnabled' = FALSE
            /\ currentlyStreamingIdRef' = [id |-> nextId]
            /\ applying' = applying \cup {[id |-> nextId, userMessage |-> instructions]}
            /\ nextId' = nextId + 1
            /\ isStreaming' = TRUE
       ELSE UNCHANGED <<inputEnabled, currentlyStreamingIdRef, applying, nextId, isStreaming>>
    /\ UNCHANGED instructions

\* lines 90-95: the form's onKeyDown
onKeyDown(key, shiftKey) ==
    onSubmit("onKeyDown", key = "Enter" /\ ~shiftKey)

\* lines 96-103: the form's onSubmit
onFormSubmit ==
    onSubmit("onFormSubmit", ~isDisabled)

KeyInputs == {"Enter", "a"}

\* lines 62-67: onInterrupt assigns nothing to currentlyStreamingIdRef
RefAfterInterrupt(ref) ==
    ref

\* lines 62-67, the stop button (lines 157-160) being shown while isStreaming
onInterrupt ==
    /\ isStreaming
    /\ applying' = IF currentlyStreamingIdRef # Undefined
                   THEN {a \in applying : a.id # currentlyStreamingIdRef.id}
                   ELSE applying
    /\ currentlyStreamingIdRef' = RefAfterInterrupt(currentlyStreamingIdRef)
    /\ inputEnabled' = TRUE
    /\ isStreaming' = FALSE
    /\ lastC' = [op |-> "onInterrupt", before |-> ChatSnapshot]
    /\ UNCHANGED <<instructions, nextId>>

\* an apply runs to its end in the service; the component subscribes to nothing
\* that tells it
ApplyEnds(a) ==
    /\ a \in applying
    /\ applying' = applying \ {a}
    /\ lastC' = [op |-> "applyEnds"]
    /\ UNCHANGED <<instructions, currentlyStreamingIdRef, isStreaming, inputEnabled, nextId>>

(***************************************************************************)
(* The specifications.  Each drives one part and leaves the others as      *)
(* they were constructed.                                                  *)
(***************************************************************************)
allVars == <<vars, bridgeVars, configVars, eventLog, chatVars>>

SettingsIdle == UNCHANGED vars

BridgeIdle == UNCHANGED bridgeVars

ConfigIdle == UNCHANGED configVars

LogIdle == UNCHANGED eventLog

ChatIdle == UNCHANGED chatVars

\* a step of one part alone
OnlySettings == BridgeIdle /\ ConfigIdle /\ LogIdle /\ ChatIdle

OnlyBridge == SettingsIdle /\ ConfigIdle /\ LogIdle /\ ChatIdle

OnlyConfig == SettingsIdle /\ BridgeIdle /\ LogIdle /\ ChatIdle

OnlyChat == SettingsIdle /\ BridgeIdle /\ ConfigIdle /\ LogIdle

\* nothing logged yet
LogAtRest == eventLog = <<>>

\* VoidSettingsService
\* the legacy service before anything is stored; the specifications that do not
\* drive it leave it there
ConfigAtRest ==
    /\ ConfigInit
    /\ configInitRead = Absent

SpecInit ==
    /\ Init
    /\ BridgeInit
    /\ ConfigAtRest
    /\ LogAtRest
    /\ ChatInit

Next ==
    \/ ReadStateDone /\ OnlySettings
    \/ ReadStateFails /\ OnlySettings
    \/ \E i \in 1..Len(inflight) : StoreStateDone(i) /\ OnlySettings
    \/ \E i \in 1..Len(inflight) : StoreStateFails(i) /\ OnlySettings
    \/ \E p \in Range(providerNames), s \in SettingInputs :
            setSettingOfProvider(p, s) /\ OnlySettings
    \/ \E f \in Range(featureFlagNames), v \in BOOLEAN :
            setFeatureFlag(f, v) /\ OnlySettings
    \/ \E f \in FeatureInputs, v \in SelectionInputs, o \in BOOLEAN :
            setModelSelectionOfFeature(f, v, o) /\ OnlySettings
    \/ \E p \in Range(providerNames), n \in DefaultNameInputs :
            setDefaultModels(p, n) /\ OnlySettings
    \/ \E p \in Range(providerNames), n \in ModelNameInputs :
            toggleModelHidden(p, n) /\ OnlySettings
    \/ \E p \in Range(providerNames), n \in ModelNameInputs :
            addModel(p, n) /\ OnlySettings
    \/ \E p \in Range(providerNames), n \in ModelNameInputs :
            deleteModel(p, n) /\ OnlySettings

Spec == SpecInit /\ [][Next]_allVars

(***************************************************************************)
(* The service driven only through its four model-list methods, from the   *)
(* defaults: nothing is stored yet, so the initial read finds no record    *)
(* and installs the defaults (lines 265-267).                              *)
(***************************************************************************)
ListOpsInit ==
    /\ Init
    /\ initRead = Absent
    /\ BridgeInit
    /\ ConfigAtRest
    /\ LogAtRest
    /\ ChatInit

ListOpsNext ==
    \/ ReadStateDone /\ OnlySettings
    \/ \E i \in 1..Len(inflight) : StoreStateDone(i) /\ OnlySettings
    \/ \E i \in 1..Len(inflight) : StoreStateFails(i) /\ OnlySettings
    \/ \E p \in Range(providerNames), n \in DefaultNameInputs :
            setDefaultModels(p, n) /\ OnlySettings
    \/ \E p \in Range(providerNames), n \in ModelNameInputs :
            toggleModelHidden(p, n) /\ OnlySettings
    \/ \E p \in Range(providerNames), n \in ModelNameInputs :
            addModel(p, n) /\ OnlySettings
    \/ \E p \in Range(providerNames), n \in ModelNameInputs :
            deleteModel(p, n) /\ OnlySettings

SpecListOps == ListOpsInit /\ [][ListOpsNext]_allVars

\* the bridge, its services and its components
BridgeSpecInit ==
    /\ Init
    /\ initRead = Absent
    /\ BridgeInit
    /\ ConfigAtRest
    /\ LogAtRest
    /\ ChatInit

BridgeNext ==
    \/ \E a \in AccessorInputs : _registerServices(a) /\ OnlyBridge
    \/ useAccessor /\ OnlyBridge
    \/ \E d \in Domains : \E v \in ChangedServiceStates(d, serviceState[d]) :
            ServiceChanges(d, v) /\ OnlyBridge
    \/ \E c \in Components : useStateHook(c) /\ OnlyBridge
    \/ \E c \in Components : runEffect(c) /\ OnlyBridge
    \/ \E c \in Components : runCleanup(c) /\ OnlyBridge

SpecBridge == BridgeSpecInit /\ [][BridgeNext]_allVars

\* VoidConfigStateService
ConfigSpecInit ==
    /\ Init
    /\ initRead = Absent
    /\ BridgeInit
    /\ ConfigInit
    /\ LogAtRest
    /\ ChatInit

ConfigNext ==
    \/ ConfigReadDone /\ OnlyConfig
    \/ \E i \in 1..Len(configPending) : ConfigStoreDone(i) /\ OnlyConfig
    \/ \E i \in 1..Len(configPending) : ConfigStoreFails(i) /\ OnlyConfig
    \/ \E p \in Range(providerNames), v \in ConfigKeyInputs :
            VoidConfig_setSettingOfProvider(p, "apiKey", v) /\ OnlyConfig
    \/ \E f \in FeatureInputs, v \in SelectionInputs :
            VoidConfig_setModelSelectionOfFeature(f, v) /\ OnlyConfig

SpecConfig == ConfigSpecInit /\ [][ConfigNext]_allVars

\* VoidSettingsService with the bridge subscribed to it and the components
\* that use useSettingsState; the record read at construction is one _readState
\* can parse
CoupledInit ==
    /\ Init
    /\ initRead # UnparsableRecord
    /\ BridgeInitWith(defaultState)
    /\ ConfigAtRest
    /\ LogAtRest
    /\ ChatInit

CoupledNext ==
    \/ CoupledReadDone /\ ConfigIdle /\ ChatIdle
    \/ \E i \in 1..Len(inflight) : CoupledStoreDone(i) /\ ConfigIdle /\ ChatIdle
    \/ \E i \in 1..Len(inflight) : CoupledStoreFails(i) /\ ConfigIdle /\ ChatIdle
    \/ \E p \in CoupledProviders, s \in CoupledSettings :
            CoupledCall(setSettingOfProvider(p, s)) /\ ConfigIdle /\ ChatIdle
    \/ \E f \in FeatureInputs, v \in SelectionInputs :
            CoupledCall(setModelSelectionOfFeature(f, v, TRUE)) /\ ConfigIdle /\ ChatIdle
    \/ ~wasCalled /\ _registerServices("accessor1") /\ OnlyBridge
    \/ \E c \in SettingsComponents : useStateHook(c) /\ OnlyBridge
    \/ \E c \in SettingsComponents : runEffect(c) /\ OnlyBridge

SpecCoupled == CoupledInit /\ [][CoupledNext]_allVars

\* one CtrlKChat
ChatSpecInit ==
    /\ Init
    /\ initRead = Absent
    /\ BridgeInit
    /\ ConfigAtRest
    /\ LogAtRest
    /\ ChatInit

ChatNext ==
    \/ \E t \in InstructionInputs : onChangeText(t) /\ OnlyChat
    \/ \E k \in KeyInputs, shiftKey \in BOOLEAN : onKeyDown(k, shiftKey) /\ OnlyChat
    \/ onFormSubmit /\ OnlyChat
    \/ onInterrupt /\ OnlyChat
    \/ \E a \in applying : ApplyEnds(a) /\ OnlyChat

SpecChat == ChatSpecInit /\ [][ChatNext]_allVars

(***************************************************************************)
(* Properties.  `last` is the last public call (or the completion of the   *)
(* initial read), `prev` the service before it; no other step assigns      *)
(* this.state, so a predicate on `last`, `prev` and `state` speaks of the  *)
(* service from the moment the call returned until the next call.          *)
(***************************************************************************)
Providers == Range(providerNames)

Features == Range(featureNames)

\* the setSettingOfProvider(p, s, v) that `last` made, directly or through a helper
LastSetting == last.inner[1]

ModelNamesOf(models) == {models[i].modelName : i \in 1..Len(models)}

\* the number of pending persists a method awaits
InflightBy(caller) ==
    Cardinality({i \in 1..Len(inflight) : inflight[i].caller = caller})

\* every event of a field tag is the event of one completed persist of the method
\* that fires that tag, and every persist not yet done or failed is pending
EventsAccounted ==
    \A c \in Callers : fired[TagOf(c)] + InflightBy(c) + failed[c] = issued[c]

\* sel is the value of an option of the list
SelectionListed(modelsList, sel) ==
    \E i \in 1..Len(modelsList) : modelsList[i].value = sel

\* the options of the list that belong to provider p, as selections, in order
SelectionsOfProvider(modelsList, p) ==
    [i \in 1..Len(SelectSeq(modelsList, LAMBDA o : o.value.providerName = p)) |->
        SelectSeq(modelsList, LAMBDA o : o.value.providerName = p)[i].value]

\* the non-hidden models of p, as selections, in order
VisibleSelections(settingsOfProvider, p) ==
    [i \in 1..Len(SelectSeq(settingsOfProvider[p].models, LAMBDA m : ~m.isHidden)) |->
        [providerName |-> p,
         modelName    |->
            SelectSeq(settingsOfProvider[p].models, LAMBDA m : ~m.isHidden)[i].modelName]]

\* C1: after setSettingOfProvider(p, s, v), state.settingsOfProvider[p][s] is v,
\* and every other setting of p and every setting of every other provider is what
\* it was before the call (no key added, none dropped).
C1_SetSettingFrame ==
    last.inner # <<>> =>
        /\ state.settingsOfProvider[LastSetting.providerName][LastSetting.settingName]
                = LastSetting.newVal
        /\ DOMAIN state.settingsOfProvider = DOMAIN prev.state.settingsOfProvider
        /\ \A q \in DOMAIN prev.state.settingsOfProvider :
            /\ DOMAIN state.settingsOfProvider[q]
                    = DOMAIN prev.state.settingsOfProvider[q]
            /\ \A t \in DOMAIN prev.state.settingsOfProvider[q] :
                    (q # LastSetting.providerName \/ t # LastSetting.settingName)
                        => state.settingsOfProvider[q][t]
                                = prev.state.settingsOfProvider[q][t]

\* C1 witness: a direct call gave one provider an api key while the other
\* provider keeps a setting that differs from it.
C1_Witness ==
    /\ last.op = "setSettingOfProvider"
    /\ LastSetting.settingName = "apiKey"
    /\ LastSetting.providerName = "openai"
    /\ state.settingsOfProvider["openai"].apiKey = "sk-1"
    /\ state.settingsOfProvider["anthropic"].apiKey = ""
    /\ state.settingsOfProvider["anthropic"]._enabled

\* C2: when setSettingOfProvider changes 'models' or '_enabled', a feature whose
\* selection is not an option of the recomputed list gets the first option (null
\* when the list is empty) and every other feature keeps its selection; the
\* document handed to the persist of the call, and the one it stores, is the
\* state with the reassignment; the call issues one persist, awaited by
\* setSettingOfProvider, whose completion fires 'settingsOfProvider', and none
\* that would fire 'modelSelectionOfFeature'.
C2_ReassignOnListChange ==
    (last.inner # <<>> /\ LastSetting.settingName \in {"models", "_enabled"}) =>
        /\ \A f \in Features :
            state.modelSelectionOfFeature[f] =
                IF SelectionListed(state._modelOptions, prev.state.modelSelectionOfFeature[f])
                THEN prev.state.modelSelectionOfFeature[f]
                ELSE IF state._modelOptions = <<>> THEN Null
                ELSE state._modelOptions[1].value
        /\ \A i \in 1..Len(inflight) :
            inflight[i].call = calls =>
                /\ inflight[i].doc = JSONstringify(state)
                /\ inflight[i].caller = "setSettingOfProvider"
        /\ storedBy = calls => storage = encrypt(JSONstringify(state))
        /\ issued = [prev.issued EXCEPT !["setSettingOfProvider"] = @ + 1]
        /\ EventsAccounted
        /\ TagOf("setSettingOfProvider") = "settingsOfProvider"

\* C2 witness: a feature had an invalid selection, the list is not empty, the
\* feature now holds the first option and the persist of the call has stored it.
C2_Witness ==
    /\ last.inner # <<>>
    /\ LastSetting.settingName \in {"models", "_enabled"}
    /\ prev.state.modelSelectionOfFeature["Ctrl+K"] # Null
    /\ ~SelectionListed(state._modelOptions, prev.state.modelSelectionOfFeature["Ctrl+K"])
    /\ state._modelOptions # <<>>
    /\ state.modelSelectionOfFeature["Ctrl+K"] = state._modelOptions[1].value
    /\ storedBy = calls
    /\ fired["settingsOfProvider"] = 1
    /\ fired["modelSelectionOfFeature"] = 0

IsEnabledCall(call, p, v) ==
    /\ call.op = "setSettingOfProvider"
    /\ call.inner # <<>>
    /\ call.inner[1].providerName = p
    /\ call.inner[1].settingName = "_enabled"
    /\ call.inner[1].newVal = v

\* C3: after setSettingOfProvider(p, '_enabled', false) no option of
\* _modelOptions belongs to p; when the next call is
\* setSettingOfProvider(p, '_enabled', true), the options of p are exactly the
\* non-hidden models of p, in order, and, p having been enabled before it was
\* disabled, _modelOptions is the list it was before the disabling.
C3_DisableThenEnable ==
    [][\A p \in Providers :
        /\ IsEnabledCall(last', p, FALSE)
              => SelectionsOfProvider(state'._modelOptions, p) = <<>>
        /\ (calls' = calls + 1 /\ IsEnabledCall(last, p, FALSE)
                               /\ IsEnabledCall(last', p, TRUE))
              => /\ SelectionsOfProvider(state._modelOptions, p) = <<>>
                 /\ SelectionsOfProvider(state'._modelOptions, p)
                        = VisibleSelections(state'.settingsOfProvider, p)
                 /\ prev.state.settingsOfProvider[p]._enabled
                        => state'._modelOptions = prev.state._modelOptions
      ]_vars

\* C3 witness: the stored document had anthropic enabled; the first call after
\* the initial read disabled it, which left no option at all and no selection,
\* and the second call enabled it again.
C3_Witness ==
    /\ IsEnabledCall(last, "anthropic", TRUE)
    /\ calls = 2
    /\ prev.state._modelOptions = <<>>
    /\ ~prev.state.settingsOfProvider["anthropic"]._enabled
    /\ prev.state.modelSelectionOfFeature["Ctrl+K"] = Null
    /\ phase = "Ready"
    /\ initRead \notin {Absent, UndecryptableRecord, UnparsableRecord}
    /\ Len(state._modelOptions) = 1
    /\ state._modelOptions[1].text = "claude (anthropic)"

\* C4: deleteModel(p, name) returns false, leaves the state as it was and issues
\* no persist (hence no event) when no model of p is named name; otherwise it
\* returns true and the new list is the old one without one entry named name,
\* the others in their order.
C4_DeleteModel ==
    last.op = "deleteModel" =>
        LET p   == last.args[1]
            old == prev.state.settingsOfProvider[p].models
            new == state.settingsOfProvider[p].models
        IN  IF last.args[2] \notin ModelNamesOf(old)
            THEN /\ last.ret = <<FALSE>>
                 /\ new = old
                 /\ state = prev.state
                 /\ issued = prev.issued
                 /\ EventsAccounted
            ELSE /\ last.ret = <<TRUE>>
                 /\ Len(new) = Len(old) - 1
                 /\ \E i \in 1..Len(old) :
                        /\ old[i].modelName = last.args[2]
                        /\ \A j \in 1..Len(new) :
                                new[j] = IF j < i THEN old[j] ELSE old[j + 1]

\* C4 witness: a model was deleted from a list of two, the other one stays.
C4_Witness ==
    /\ last.op = "deleteModel"
    /\ last.ret = <<TRUE>>
    /\ Len(prev.state.settingsOfProvider[last.args[1]].models) = 2
    /\ Len(state.settingsOfProvider[last.args[1]].models) = 1

\* C5: addModel is idempotent: when addModel(p, n) is called twice in a row,
\* the second call changes nothing (state, pending persists, storage, events),
\* so the list of p is the one the first call left.
C5_AddModelIdempotent ==
    [][(calls' = calls + 1 /\ last.op = "addModel" /\ last'.op = "addModel"
                           /\ last'.args = last.args)
          => /\ last.args[2] \in ModelNamesOf(state.settingsOfProvider[last.args[1]].models)
             /\ UNCHANGED <<state, inflight, issued, storage, fired>>
      ]_vars

\* C5 witness: the first of two equal addModel calls added the name, the second
\* found it.
C5_Witness ==
    /\ last.op = "addModel"
    /\ last.inner = <<>>
    /\ calls = 2
    /\ issued["setSettingOfProvider"] = 1
    /\ last.args = <<"anthropic", "gpt-4o">>
    /\ Len(state.settingsOfProvider["anthropic"].models) = 2
    /\ phase = "ReadingStorage"

\* C6: addModel(p, n) with n not yet a model name of p appends the one entry
\* {modelName: n, isDefault: false, isHidden: false} after the prior entries,
\* which stay as they were, and issues one persist, awaited by
\* setSettingOfProvider, whose completion fires one 'settingsOfProvider' event.
C6_AddModelAppends ==
    (last.op = "addModel"
        /\ last.args[2] \notin ModelNamesOf(prev.state.settingsOfProvider[last.args[1]].models))
    =>  /\ state.settingsOfProvider[last.args[1]].models
                = Append(prev.state.settingsOfProvider[last.args[1]].models,
                         [modelName |-> last.args[2], isDefault |-> FALSE,
                          isHidden |-> FALSE])
        /\ issued = [prev.issued EXCEPT !["setSettingOfProvider"] = @ + 1]
        /\ EventsAccounted
        /\ TagOf("setSettingOfProvider") = "settingsOfProvider"

\* C6 witness: starting from the defaults with no stored document, the one call
\* added a model after the default one and its event has been fired.
C6_Witness ==
    /\ initRead = Absent
    /\ calls = 1
    /\ last.op = "addModel"
    /\ last.args = <<"anthropic", "gpt-4o">>
    /\ Len(state.settingsOfProvider["anthropic"].models) = 2
    /\ state.settingsOfProvider["anthropic"].models[1].modelName = "claude"
    /\ inflight = <<>>
    /\ fired["settingsOfProvider"] = 1

\* C7: the value of a flag is the value given by the last setFeatureFlag call on
\* it (as long as the initial read has not replaced the state since), every
\* setFeatureFlag call issues one persist, and every such persist that is
\* neither pending nor failed has fired one 'featureFlagSettings' event.
C7_FeatureFlagCalls ==
    /\ \A f \in Range(featureFlagNames) :
            flagSet[f] # <<>> => state.featureFlagSettings[f] = flagSet[f][1]
    /\ last.op = "setFeatureFlag"
            => issued = [prev.issued EXCEPT !["setFeatureFlag"] = @ + 1]
    /\ fired["featureFlagSettings"] + InflightBy("setFeatureFlag")
            + failed["setFeatureFlag"] = issued["setFeatureFlag"]

\* C7 witness: two setFeatureFlag calls were made back to back, the second with
\* false; both persists are done and two events were fired.
C7_Witness ==
    /\ calls = 2
    /\ issued["setFeatureFlag"] = 2
    /\ last.op = "setFeatureFlag"
    /\ state.featureFlagSettings["autoRefreshModels"] = FALSE
    /\ inflight = <<>>
    /\ fired["featureFlagSettings"] = 2

\* C8: state.settingsOfProvider has an entry for every provider name and
\* state.modelSelectionOfFeature one for every feature name, in every state.
C8_NoMissingKeys ==
    /\ DOMAIN state.settingsOfProvider = Providers
    /\ DOMAIN state.modelSelectionOfFeature = Features

\* C8 witness: the stored document has replaced the defaults and methods of
\* both maps were called since.
C8_Witness ==
    /\ phase = "Ready"
    /\ initRead \in {encrypt(JSONstringify(d)) : d \in StoredDocs}
    /\ calls = 2
    /\ last.op = "setModelSelectionOfFeature"
    /\ prev.state.settingsOfProvider # _readState(initRead).value.settingsOfProvider

\* C9: the initial read completes at most once; waitForInitState is resolved
\* once when the service is Ready and not before; the 'all' event is fired once,
\* at that transition, and no other step fires it; the field events are those
\* of the persists; at the transition the state is the document read.
C9_InitOnce ==
    /\ phase \in {"ReadingStorage", "Ready", "Failed"}
    /\ resolved = (IF phase = "Ready" THEN 1 ELSE 0)
    /\ fired["all"] = resolved
    /\ InitEventProp \notin {TagOf(c) : c \in Callers}
    /\ EventsAccounted
    /\ last.op = "readState"
            => /\ phase = "Ready"
               /\ state = _readState(initRead).value

\* C9 witness: calls were made on the defaults while the read was in flight,
\* then the stored document replaced the state.
C9_Witness ==
    /\ last.op = "readState"
    /\ calls = 2
    /\ prev.state # defaultState
    /\ state # defaultState
    /\ state # prev.state
    /\ resolved = 1
    /\ fired["all"] = 1

\* C10: when the stored record cannot be decrypted or parsed, the service never
\* becomes Ready, waitForInitState is never resolved, no 'all' event is fired,
\* the failure is an unhandled rejection, and nothing rewrites the state: it is
\* what the last call left.
C10_CorruptRecord ==
    initRead \in {UndecryptableRecord, UnparsableRecord} =>
        /\ phase # "Ready"
        /\ resolved = 0
        /\ fired["all"] = 0
        /\ last.op # "readState"
        /\ state = post
        /\ phase = "Failed" => unhandled >= 1

\* C10 witness: the read of an unparsable record has failed after a call had
\* changed the state, and the state is still the changed one.
C10_Witness ==
    /\ initRead = UnparsableRecord
    /\ phase = "Failed"
    /\ calls = 1
    /\ state # defaultState
    /\ unhandled = 1

\* the pending persist that call number n issued, if it is still pending
PendingOf(n) == {i \in 1..Len(inflight) : inflight[i].call = n}

\* the persists that have completed, over all methods
PersistsDone ==
    fired["settingsOfProvider"] + fired["modelSelectionOfFeature"]
        + fired["featureFlagSettings"]

\* the persists that have failed, over all methods
PersistsFailed ==
    failed["setSettingOfProvider"] + failed["setModelSelectionOfFeature"]
        + failed["setFeatureFlag"]

\* C11: setModelSelectionOfFeature(f, sel, {doNotApplyEffects: true}) replaces
\* only feature f's selection in the in-memory state, issues no persist (so
\* nothing is written to storage for it) and fires no event; without the option
\* the same replacement is made, one persist of the new state is issued, and
\* the 'modelSelectionOfFeature' events are exactly the completed persists of
\* this method, one for each.
C11_DoNotApplyEffects ==
    last.op = "setModelSelectionOfFeature" =>
        LET featureName == last.args[1]
            doNotApplyEffects == last.args[2]
            newVal == last.args[3]
        IN  /\ state.modelSelectionOfFeature[featureName] = newVal
            /\ \A g \in Features \ {featureName} :
                    state.modelSelectionOfFeature[g] = prev.state.modelSelectionOfFeature[g]
            /\ state.settingsOfProvider = prev.state.settingsOfProvider
            /\ state.featureFlagSettings = prev.state.featureFlagSettings
            /\ state._modelOptions = prev.state._modelOptions
            /\ fired["modelSelectionOfFeature"]
                    + InflightBy("setModelSelectionOfFeature")
                    + failed["setModelSelectionOfFeature"]
                = issued["setModelSelectionOfFeature"]
            /\ IF doNotApplyEffects
               THEN /\ issued = prev.issued
                    /\ PendingOf(calls) = {}
                    /\ storedBy # calls
               ELSE /\ issued = [prev.issued EXCEPT !["setModelSelectionOfFeature"] = @ + 1]
                    /\ \A i \in PendingOf(calls) :
                            /\ inflight[i].caller = "setModelSelectionOfFeature"
                            /\ inflight[i].doc = JSONstringify(state)
                    /\ storedBy = calls => storage = encrypt(JSONstringify(state))
                    /\ \/ PendingOf(calls) # {}
                       \/ storedBy = calls
                       \/ PersistsDone + PersistsFailed >= 1

\* C11 witness: a selection was set with doNotApplyEffects after an ordinary
\* call whose persist is done; the selection is in memory, the stored document
\* is still the one of the earlier call and no selection event was fired.
C11_Witness ==
    /\ last.op = "setModelSelectionOfFeature"
    /\ last.args[2]
    /\ last.args[3] # Null
    /\ state.modelSelectionOfFeature["Ctrl+K"] = last.args[3]
    /\ prev.state.modelSelectionOfFeature["Ctrl+K"] # last.args[3]
    /\ calls = 2
    /\ storedBy = 1
    /\ fired["modelSelectionOfFeature"] = 0
    /\ inflight = <<>>

\* C12: when the persist of a mutation fails, the mutation throws (one more
\* unhandled rejection per failure), the in-memory state is not rolled back
\* (it is what the last call made it), the failed persist fires no event
\* (events, pending and failed persists add up to the issued ones), and
\* nothing is written: while no persist has completed the stored record is the
\* one found at construction.
C12_PersistFailure ==
    /\ state = post
    /\ EventsAccounted
    /\ unhandled = PersistsFailed + (IF phase = "Failed" THEN 1 ELSE 0)
    /\ PersistsDone = 0 => (storage = initRead /\ storedBy = 0)

\* C12 witness: setFeatureFlag turned the flag off and its persist failed; the
\* flag is off in memory, the stored record is untouched, no event was fired
\* and the rejection went unhandled.
C12_Witness ==
    /\ last.op = "setFeatureFlag"
    /\ calls = 1
    /\ failed["setFeatureFlag"] = 1
    /\ inflight = <<>>
    /\ state.featureFlagSettings["autoRefreshModels"] = FALSE
    /\ prev.state.featureFlagSettings["autoRefreshModels"] = TRUE
    /\ storage = initRead
    /\ storedBy = 0
    /\ fired["featureFlagSettings"] = 0
    /\ unhandled >= 1

\* the three stored fields the state is made of (lines 179-181)
SourceFields == {"settingsOfProvider", "modelSelectionOfFeature", "featureFlagSettings"}

\* the documents _storeState has serialised: those of the pending persists and,
\* once a persist has completed, the stored one
SerialisedDocs ==
    {inflight[i].doc.value : i \in 1..Len(inflight)}
        \cup (IF storedBy # 0 THEN {storage.plain.value} ELSE {})

\* C13 as stated: every document the service serialises, encrypts and writes
\* holds only settingsOfProvider, modelSelectionOfFeature and
\* featureFlagSettings; _modelOptions is not in it.
C13_OnlyThreeFields ==
    \A d \in SerialisedDocs : DOMAIN d = SourceFields

\* C13 as the code has it: every document the service serialises, encrypts and
\* writes is the whole state object, the three stored fields and the derived
\* _modelOptions with them; the document of the last call, while pending or
\* stored, carries the _modelOptions that call left in memory.
C13_DerivedPersisted ==
    /\ \A d \in SerialisedDocs : DOMAIN d = SourceFields \cup {"_modelOptions"}
    /\ last.op # "readState" =>
        /\ \A i \in PendingOf(calls) :
                inflight[i].doc.value._modelOptions = state._modelOptions
        /\ (storedBy = calls /\ calls > 0) =>
                storage.plain.value._modelOptions = state._modelOptions

\* C13 witness: enabling a provider made the option list non-empty and the
\* persist of that call has written it to storage.
C13_Witness ==
    /\ calls = 1
    /\ storedBy = 1
    /\ last.inner # <<>>
    /\ LastSetting.settingName = "_enabled"
    /\ state._modelOptions # <<>>
    /\ storage.plain.value._modelOptions = state._modelOptions

\* C15: after setDefaultModels(p, names) the list of p is one default entry per
\* name, in the order of names, followed by every model that had
\* isDefault = false before the call, each unchanged and in its previous
\* relative order; no earlier default entry is kept.
C15_SetDefaultModels ==
    last.op = "setDefaultModels" =>
        LET names  == last.args[2]
            before == prev.state.settingsOfProvider[last.args[1]].models
            after  == state.settingsOfProvider[last.args[1]].models
            kept   == SelectSeq(before, LAMBDA m : ~m.isDefault)
        IN  /\ Len(after) = Len(names) + Len(kept)
            /\ \A i \in 1..Len(names) :
                    /\ after[i].modelName = names[i]
                    /\ after[i].isDefault
            /\ \A j \in 1..Len(kept) : after[Len(names) + j] = kept[j]

\* C15 witness: a provider with one default and one user-added model was given
\* a new default name; its list is now the new default entry followed by the
\* user-added model as it was, and the old default entry is gone.
C15_Witness ==
    /\ last.op = "setDefaultModels"
    /\ last.args = <<"anthropic", <<"gpt-4o">>>>
    /\ Len(prev.state.settingsOfProvider["anthropic"].models) = 2
    /\ prev.state.settingsOfProvider["anthropic"].models[1].isDefault
    /\ prev.state.settingsOfProvider["anthropic"].models[1].modelName = "claude"
    /\ ~prev.state.settingsOfProvider["anthropic"].models[2].isDefault
    /\ Len(state.settingsOfProvider["anthropic"].models) = 2
    /\ state.settingsOfProvider["anthropic"].models[1].isDefault
    /\ state.settingsOfProvider["anthropic"].models[2]
            = prev.state.settingsOfProvider["anthropic"].models[2]

\* C14: in every state reached from the defaults through addModel,
\* deleteModel, toggleModelHidden and setDefaultModels alone, no provider's
\* models list holds the same model name at two places.
C14_UniqueModelNames ==
    \A p \in Providers :
        \A i, j \in 1..Len(state.settingsOfProvider[p].models) :
            i # j => state.settingsOfProvider[p].models[i].modelName
                        # state.settingsOfProvider[p].models[j].modelName

\* the components of a hook that are mounted: their effect has run and its
\* cleanup has not
MountedOf(d) == {c \in Components : c[1] = d /\ status[c] = "mounted"}

\* C16: however often _registerServices is called, the bridge holds exactly
\* one subscription to each domain's change event once it was called and none
\* before; a call made after the first leaves the caches, the listener sets,
\* the registered accessor and the subscriptions as they were.
C16_RegisterOnce ==
    /\ \A d \in Domains : subscriptions[d] = (IF wasCalled THEN 1 ELSE 0)
    /\ lastB.op = "_registerServices" =>
        /\ wasCalled
        /\ lastB.again => Registration = lastB.before

\* C16 witness: _registerServices was called again, with another accessor,
\* after a service had changed and a component had subscribed; the accessor
\* registered is still the first one.
C16_Witness ==
    /\ lastB.op = "_registerServices"
    /\ lastB.again
    /\ lastB.accessor = "accessor2"
    /\ reactAccessor_ = [accessor |-> "accessor1"]
    /\ stateListeners["settings"] # {}
    /\ cachedState["settings"] = [rev |-> 1]
    /\ subscriptions["settings"] = 1

\* C17: useAccessor throws when it is called before _registerServices has run
\* and does not throw when it is called after.
C17_UseAccessor ==
    lastB.op = "useAccessor" => (lastB.threw <=> ~wasCalled)

\* C17 witness: a component was rendered before _registerServices and its
\* call of useAccessor threw.
C17_Witness ==
    /\ lastB.op = "useAccessor"
    /\ lastB.threw
    /\ ~wasCalled
    /\ \E c \in Components : status[c] = "rendered"

\* C18 as stated: a state hook first called before _registerServices has run
\* returns a defined value.
C18_DefinedBeforeRegistration ==
    (lastB.op = "useStateHook" /\ ~lastB.registered) => lastB.returned # Undefined

\* C18 as the code has it: until _registerServices has run every cache is
\* undefined, and a hook first called then returns undefined, except useIsDark,
\* which returns false; once it has run every cache is defined and a hook
\* first called then returns the defined value made of its cache.
C18_UndefinedBeforeRegistration ==
    /\ \A d \in Domains :
            IF wasCalled
            THEN cachedState[d] # Undefined
            ELSE cachedState[d] = Undefined
    /\ lastB.op = "useStateHook" =>
            IF lastB.registered
            THEN /\ lastB.returned # Undefined
                 /\ lastB.returned
                        = HookReturn(lastB.component[1], cachedState[lastB.component[1]])
            ELSE lastB.returned = (IF lastB.component[1] = "colorTheme"
                                   THEN JsBool(FALSE) ELSE Undefined)

\* C18 witness: useSettingsState was called in a first render before
\* _registerServices and returned undefined.
C18_Witness ==
    /\ lastB.op = "useStateHook"
    /\ lastB.component = <<"settings", 1>>
    /\ ~lastB.registered
    /\ ~wasCalled
    /\ lastB.returned = Undefined
    /\ view[<<"settings", 1>>] = Undefined

\* C19: the listener set of each hook holds exactly the setters of the
\* components of that hook that are mounted; no setter of a component that is
\* not mounted is ever called; and the local state of a mounted component is
\* the cached value, which its effect gave it and every later notification
\* renewed, unless the cache was only filled, by _registerServices, after the
\* component had mounted: then it is still undefined.
C19_ListenerSets ==
    /\ \A d \in Domains : stateListeners[d] = MountedOf(d)
    /\ staleDeliveries = 0
    /\ \A c \in Components :
            (status[c] = "mounted" /\ view[c] # cachedState[c[1]]) =>
                (view[c] = Undefined /\ wasCalled)

\* C19 witness: of two components using useSettingsState the second has just
\* unmounted; the listener set holds the first one's setter alone, and the
\* first one's local state is the state the service changed to.
C19_Witness ==
    /\ lastB.op = "runCleanup"
    /\ lastB.component = <<"settings", 2>>
    /\ status[<<"settings", 1>>] = "mounted"
    /\ status[<<"settings", 2>>] = "unmounted"
    /\ stateListeners["settings"] = {<<"settings", 1>>}
    /\ view[<<"settings", 1>>] = [rev |-> 1]
    /\ cachedState["settings"] = [rev |-> 1]

\* C20: a mutation's value is in memory before its persist is awaited, so that
\* of two calls made one after the other without awaiting, neither loses the
\* other's value: once the initial read has completed, whenever no persist is
\* pending and none has failed, the state of VoidConfigStateService holds
\* every value its methods were called with since.
C20_NoLostUpdate ==
    (configPhase = "Ready" /\ ~configEarly /\ configPending = <<>> /\ configFailed = 0)
        => configState = configExpected

\* the persists issued, over all methods
PersistsIssued ==
    issued["setSettingOfProvider"] + issued["setModelSelectionOfFeature"]
        + issued["setFeatureFlag"]

\* C21: the storage writes of persisting mutations land in the order the
\* mutations were issued: once two or more mutations, each of which issued a
\* persist, have all completed their persists (and the initial read has not
\* replaced the state since the last of them), the stored document is the one
\* written for the last mutation issued and is the serialisation of the
\* in-memory state.
C21_WritesInIssueOrder ==
    (calls >= 2 /\ PersistsIssued = calls /\ PersistsDone = calls /\ last.op # "readState")
        => (storedBy = calls /\ storage = encrypt(JSONstringify(state)))

\* the options of the non-hidden models of provider p, in model order
VisibleOptionsOf(settingsOfProvider, p) ==
    LET shown == SelectSeq(settingsOfProvider[p].models, LAMBDA m : ~m.isHidden)
    IN  [j \in 1..Len(shown) |->
            [text  |-> shown[j].modelName \o " (" \o p \o ")",
             value |-> [providerName |-> p, modelName |-> shown[j].modelName]]]

\* the options of the first n providers, the disabled ones left out
RECURSIVE FlattenedOptions(_, _)
FlattenedOptions(settingsOfProvider, n) ==
    IF n = 0 THEN <<>>
    ELSE FlattenedOptions(settingsOfProvider, n - 1)
         \o (IF settingsOfProvider[providerNames[n]]._enabled
              THEN VisibleOptionsOf(settingsOfProvider, providerNames[n])
              ELSE <<>>)

\* C24: in every reachable state of VoidSettingsService, state._modelOptions
\* is the list obtained by flattening, in provider order and then model order,
\* the non-hidden models of the enabled providers of state.settingsOfProvider.
C24_ModelOptionsDerived ==
    state._modelOptions = FlattenedOptions(state.settingsOfProvider, Len(providerNames))

\* C24 witness: a provider has just been enabled whose models are not all
\* shown, and the options list the shown ones and no hidden one.
C24_Witness ==
    /\ last.op = "setSettingOfProvider"
    /\ last.args[2] = "_enabled"
    /\ state._modelOptions # <<>>
    /\ state._modelOptions # prev.state._modelOptions
    /\ \E p \in Range(providerNames) :
            /\ state.settingsOfProvider[p]._enabled
            /\ \E i \in 1..Len(state.settingsOfProvider[p].models) :
                    state.settingsOfProvider[p].models[i].isHidden

\* C25: a mutation issued while the initial read is in flight is not split
\* between memory and storage: once the initial read has completed, when every
\* mutation issued a persist, every persist has completed (at least one), none
\* failed and the last write is the last mutation's, the stored record is the
\* encrypted serialisation of the in-memory state.
C25_ReadNotSplit ==
    (/\ phase = "Ready"
     /\ inflight = <<>>
     /\ PersistsDone >= 1
     /\ PersistsFailed = 0
     /\ PersistsIssued = calls
     /\ storedBy = calls)
        => storage = encrypt(JSONstringify(state))

\* the place of an event in the order C22 states
EventRank(ev) ==
    CASE ev = "memory"    -> 1
      [] ev = "stored"    -> 2
      [] ev = "fired"     -> 3
      [] ev = "cache"     -> 4
      [] ev = "listeners" -> 5

\* the events logged before the i-th for the same mutation
EarlierEvents(i) ==
    {j \in 1..(i - 1) : eventLog[j].call = eventLog[i].call}

\* C22: the events of every persisting mutation happen in the order: state
\* assigned in memory, document written to storage, change event fired, the
\* bridge's handler assigns the cached settings state, the listeners of the
\* hooks are called with that cached state.  Every event but the first comes
\* after the one before it in this order, so no listener is called before the
\* storage write of its mutation or before the cache is assigned, and the
\* value the listeners get is the value the cache was just given.
C22_EventOrder ==
    \A i \in 1..Len(eventLog) :
        /\ \A j \in EarlierEvents(i) :
                EventRank(eventLog[j].ev) < EventRank(eventLog[i].ev)
        /\ eventLog[i].ev # "memory" =>
                \E j \in EarlierEvents(i) :
                    EventRank(eventLog[j].ev) = EventRank(eventLog[i].ev) - 1
        /\ eventLog[i].ev = "listeners" =>
                \A j \in EarlierEvents(i) :
                    eventLog[j].ev = "cache" => eventLog[j].value = eventLog[i].value

\* C22 witness: two mutations were made one after the other, and the persist
\* of one has just completed with the bridge registered and both components
\* mounted: both listeners were called with the cached state, which is the
\* state of the service.
C22_Witness ==
    /\ Len(eventLog) >= 6
    /\ eventLog[1].ev = "memory"
    /\ eventLog[2].ev = "memory"
    /\ eventLog[Len(eventLog)].ev = "listeners"
    /\ eventLog[Len(eventLog)].called = SettingsComponents
    /\ eventLog[Len(eventLog)].value = cachedState["settings"]
    /\ \A c \in SettingsComponents : view[c] = state

SubmitEvents == {"onKeyDown", "onFormSubmit"}

\* C26: a CtrlKChat never has two applies in flight; a submit event (Enter key
\* or form submit) has startApplying called only when currentlyStreamingIdRef
\* held no id, and a submit event while an id is held changes nothing of the
\* component or of its applies.
C26_OneApply ==
    /\ Cardinality(applying) <= 1
    /\ lastC.op \in SubmitEvents =>
            /\ lastC.started => lastC.before.ref = Undefined
            /\ lastC.before.ref # Undefined => ChatSnapshot = lastC.before

\* C26 witness: Enter was pressed with non-blank instructions while the id of
\* the apply in flight was held, and no second apply was started.
C26_Witness ==
    /\ lastC.op = "onKeyDown"
    /\ lastC.before.ref = [id |-> 1]
    /\ ~isDisabled
    /\ ~lastC.started
    /\ Cardinality(applying) = 1
    /\ nextId = 2

\* C27: in every state of a CtrlKChat, isStreaming is true exactly when
\* currentlyStreamingIdRef holds an id; in particular onInterrupt leaves
\* isStreaming false and the ref without an id, so that a later submit can
\* start a new apply.
C27_StreamingIffId ==
    /\ isStreaming <=> (currentlyStreamingIdRef # Undefined)
    /\ lastC.op = "onInterrupt" => (~isStreaming /\ currentlyStreamingIdRef = Undefined)

====
